---- MODULE Spec2Model ----
(***************************************************************************)
(* A model of four parts of the Cozo deductive database:                   *)
(*   - SessionTx::compile_rule_body   (src/src/query/compile.rs)           *)
(*   - TarjanScc and StronglyConnectedComponent::run                       *)
(*        (src/cozo-core/src/algo/strongly_connected_components.rs)        *)
(*   - the StoreTx transaction contract (src/cozo-core/src/storage/mod.rs) *)
(*   - repl_main and process_line       (src/cozo-bin/src/repl.rs)         *)
(* Each part has its own specification over the shared variable list; the  *)
(* variables of the other parts stay at their idle values.                 *)
(***************************************************************************)
EXTENDS Integers, Sequences, FiniteSets, TLC

VARIABLES
    \* ---- compile_rule_body ----
    clauses,          \* the rule body (parameter)
    ret_vars,         \* the target output list (parameter)
    clause_idx,       \* position of the `for clause in clauses` loop (next clause)
    ret,              \* the accumulator Relation
    seen_variables,   \* BTreeSet<Keyword>
    id_serial,        \* counter behind gen_temp_kw
    result,           \* what the call returned: Running, Ok(plan), Err(kind), Panic
    previous,         \* what an earlier call with the same arguments returned
    \* ---- TarjanScc / StronglyConnectedComponent ----
    graph,            \* &[Vec<usize>], indices are 0-based as in the source
    id, ids, low, on_stack, stack,
    frames,           \* the recursion of dfs: one frame <<at, cursor>> per active call
    run_i,            \* loop variable of TarjanScc::run
    run_pc,           \* position inside TarjanScc::run
    poisoned,         \* the shared Poison flag
    tarjan,           \* what TarjanScc::run returned
    edges, nodes, strong,        \* payload of the algorithm
    indices, inv_indices,        \* from convert_edge_to_graph
    out, counter, node_pos, scc_pc,
    \* ---- storage ----
    committed,        \* the committed write sets, in commit order
    txs,              \* the state of each transaction object
    \* ---- repl_main ----
    params,           \* BTreeMap<String, DataValue>
    save_next,        \* Option<String>
    exit,             \* the flag a first Ctrl-C sets
    files,            \* the paths File::create has written
    repl_pc,          \* "loop" while repl_main is in its loop, "ended" after break
    trail             \* what readline returned so far, and what came of each line

compileVars ==
    <<clauses, ret_vars, clause_idx, ret, seen_variables, id_serial, result, previous>>
tarjanVars == <<graph, id, ids, low, on_stack, stack, frames, run_i, run_pc, poisoned, tarjan>>
sccVars == <<edges, nodes, strong, indices, inv_indices, out, counter, node_pos, scc_pc>>
storeVars == <<committed, txs>>
replVars == <<params, save_next, exit, files, repl_pc, trail>>
vars == <<compileVars, tarjanVars, sccVars, storeVars, replVars>>

(***************************************************************************)
(* Generic helpers                                                         *)
(***************************************************************************)
Range(s) == {s[i] : i \in DOMAIN s}

Min(a, b) == IF a < b THEN a ELSE b

\* the elements of s that are not in the set drop, in order
RECURSIVE SeqMinus(_, _)
SeqMinus(s, drop) ==
    IF s = <<>> THEN <<>>
    ELSE IF Head(s) \in drop THEN SeqMinus(Tail(s), drop)
         ELSE <<Head(s)>> \o SeqMinus(Tail(s), drop)

(***************************************************************************)
(* Rule IR: Term, Atom (compile.rs 70-134)                                 *)
(***************************************************************************)
Var(k) == [t |-> "Var", k |-> k]
Const(c) == [t |-> "Const", k |-> c]

AttrTripleAtom(attr, entity, value) ==
    [kind |-> "AttrTriple", attr |-> attr, entity |-> entity, value |-> value]
RuleApplyAtom(name, args) == [kind |-> "Rule", name |-> name, args |-> args]
PredicateAtom(expr) == [kind |-> "Predicate", expr |-> expr]
LogicalAtom == [kind |-> "Logical"]
BindUnifyAtom == [kind |-> "BindUnify"]

\* An Expr is modelled by the set of variables it references
\* (Expr::collect_bindings, used by Atom::collect_bindings).
Expr(vs) == [bindings |-> vs]

(***************************************************************************)
(* Relation plan nodes.  relation.rs is not part of the source sample; the *)
(* constructors and accessors below follow spec section 3 and 4.4.         *)
(***************************************************************************)
Unit == [t |-> "Unit"]
Singlet(vs, vals) == [t |-> "Singlet", vars |-> vs, vals |-> vals]
Triple(attr, vld, e, v) == [t |-> "Triple", attr |-> attr, vld |-> vld, e |-> e, v |-> v]
Derived(vs, store) == [t |-> "Derived", vars |-> vs, store |-> store]
Join(l, r, lk, rk) ==
    [t |-> "Join", left |-> l, right |-> r, left_keys |-> lk, right_keys |-> rk]
CartesianJoin(l, r) == [t |-> "CartesianJoin", left |-> l, right |-> r]
Filter(child, expr) == [t |-> "Filter", child |-> child, expr |-> expr]
Reorder(child, order) == [t |-> "Reorder", child |-> child, order |-> order]

is_unit(rel) == rel.t = "Unit"

\* the ordered variables a node makes available downstream
RECURSIVE Bindings(_)
Bindings(rel) ==
    CASE rel.t = "Unit"          -> <<>>
      [] rel.t = "Singlet"       -> rel.vars
      [] rel.t = "Triple"        -> <<rel.e, rel.v>>
      [] rel.t = "Derived"       -> rel.vars
      [] rel.t = "Join"          -> Bindings(rel.left) \o Bindings(rel.right)
      [] rel.t = "CartesianJoin" -> Bindings(rel.left) \o Bindings(rel.right)
      [] rel.t = "Filter"        -> Bindings(rel.child)
      [] rel.t = "Reorder"       -> rel.order

\* every node of a plan tree, the root included
RECURSIVE SubRelations(_)
SubRelations(rel) ==
    {rel} \cup
    CASE rel.t \in {"Join", "CartesianJoin"} ->
             SubRelations(rel.left) \cup SubRelations(rel.right)
      [] rel.t \in {"Filter", "Reorder"} -> SubRelations(rel.child)
      [] OTHER -> {}

(***************************************************************************)
(* Keywords.  User variables are the strings of UserVars; gen_temp_kw      *)
(* formats "*<id_serial>".                                                 *)
(***************************************************************************)
UserVars == {"a", "b"}

TempNames == <<"*0", "*1", "*2", "*3", "*4", "*5", "*6", "*7", "*8", "*9",
               "*10", "*11", "*12", "*13", "*14", "*15", "*16", "*17", "*18",
               "*19", "*20", "*21", "*22", "*23">>

\* a variant of gen_temp_kw that formats the counter's value at entry, as if
\* the counter were never incremented
gen_temp_kw_no_increment(serial) == TempNames[1]

\* format!("*{}", id_serial)
gen_temp_kw(serial) == TempNames[serial + 1]

\* the reserved temp prefix `*`
IsTemp(kw) == kw \in Range(TempNames)

(***************************************************************************)
(* compile_rule_body: parameters                                           *)
(***************************************************************************)
MaxBody == 2

Vld == "vld"

\* stores: BTreeMap<Keyword, (TempStore, usize)>; one planned predicate `r` of arity 2
Stores == [r |-> [store |-> "store_r", arity |-> 2]]

TermSet == {Var(v) : v \in UserVars} \cup {Const("c")}

TripleAtoms == {AttrTripleAtom("attr", e, v) : e \in TermSet, v \in TermSet}

RuleAtoms ==
    {RuleApplyAtom("r", <<x>>) : x \in TermSet}
    \cup {RuleApplyAtom("r", <<x, y>>) : x \in TermSet, y \in TermSet}
    \cup {RuleApplyAtom("u", <<x>>) : x \in TermSet}

PredicateAtoms == {PredicateAtom(Expr({v})) : v \in UserVars}

AtomSet == TripleAtoms \cup RuleAtoms \cup PredicateAtoms \cup {LogicalAtom, BindUnifyAtom}

Bodies == UNION {[1..n -> AtomSet] : n \in 0..MaxBody}

\* head variable lists carry no duplicates (DuplicateVariables is raised upstream)
RetVarLists ==
    {s \in UNION {[1..n -> UserVars] : n \in 0..Cardinality(UserVars)} :
        \A i \in DOMAIN s, j \in DOMAIN s : s[i] = s[j] => i = j}

(***************************************************************************)
(* compile_rule_body: results                                              *)
(***************************************************************************)
Running == [kind |-> "Running"]
OkPlan(rel, elim) == [kind |-> "Ok", plan |-> rel, to_eliminate |-> elim]
Err(kind, payload) == [kind |-> kind, payload |-> payload]
Panic == [kind |-> "Panic"]
\* no earlier call has been made
NoCall == [kind |-> "NoCall"]

(***************************************************************************)
(* compile_rule_body: helpers                                              *)
(***************************************************************************)
\* a variant of BindOrRename that forgets the right-hand key of the pair
BindOrRenameLeftKeyOnly(kw, seen, serial) ==
    IF kw \in seen
    THEN [name |-> gen_temp_kw(serial), seen |-> seen, serial |-> serial + 1,
          left |-> <<kw>>, right |-> <<>>]
    ELSE [name |-> kw, seen |-> seen \cup {kw}, serial |-> serial,
          left |-> <<>>, right |-> <<>>]

\* "bind or rename" (compile.rs 259-270, 290-300, 312-333): a seen variable is
\* replaced by a fresh temp and a join-key pair; an unseen one is claimed.
BindOrRename(kw, seen, serial) ==
    IF kw \in seen
    THEN [name |-> gen_temp_kw(serial), seen |-> seen, serial |-> serial + 1,
          left |-> <<kw>>, right |-> <<gen_temp_kw(serial)>>]
    ELSE [name |-> kw, seen |-> seen \cup {kw}, serial |-> serial,
          left |-> <<>>, right |-> <<>>]

\* the loop over rule_app.args (compile.rs 385-408)
RECURSIVE RuleArgs(_, _)
RuleArgs(args, acc) ==
    IF args = <<>> THEN acc
    ELSE LET term == Head(args)
             next ==
               IF term.t = "Var"
               THEN IF term.k \in acc.seen
                    THEN LET rk == gen_temp_kw(acc.serial)
                         IN [acc EXCEPT !.prev_joiner_vars = Append(@, term.k),
                                        !.serial = @ + 1,
                                        !.right_vars = Append(@, rk),
                                        !.right_joiner_vars = Append(@, rk)]
                    ELSE [acc EXCEPT !.seen = @ \cup {term.k},
                                     !.right_vars = Append(@, term.k)]
               ELSE LET left_kw == gen_temp_kw(acc.serial)
                        right_kw == gen_temp_kw(acc.serial + 1)
                    IN [acc EXCEPT !.temp_left_joiner_vals = Append(@, term.k),
                                   !.prev_joiner_vars = Append(@, left_kw),
                                   !.temp_left_bindings = Append(@, left_kw),
                                   !.right_joiner_vars = Append(@, right_kw),
                                   !.right_vars = Append(@, right_kw),
                                   !.serial = @ + 2]
         IN RuleArgs(Tail(args), next)

\* Relation::eliminate_temp_vars(used): the columns the planner drops, i.e. the
\* generated temps that are not in `used` (spec 4.4, Projection)
eliminate_temp_vars(rel, used) ==
    {b \in Range(Bindings(rel)) : IsTemp(b) /\ b \notin used}

bindings_after_eliminate(rel, elim) == SeqMinus(Bindings(rel), elim)

\* a variant of BindingsMismatch that only rejects surplus bindings
BindingsMismatchSurplusOnly(cur_ret_set, ret_vars_set) ==
    ~(cur_ret_set \subseteq ret_vars_set)

\* compile.rs 434 and 440: `cur_ret_set != ret_vars_set`
BindingsMismatch(cur_ret_set, ret_vars_set) == cur_ret_set # ret_vars_set

\* a variant of ArityDiffers that only rejects an atom with too many arguments
ArityDiffersTooManyOnly(arity, n) == arity < n

\* compile.rs 373: `arity != rule_app.args.len()`
ArityDiffers(arity, n) == arity # n

\* compile.rs 441: `cur_ret_set.sub(&cur_ret_set)`
UnboundDiff(cur_ret_set, ret_vars_set) == cur_ret_set \ cur_ret_set

(***************************************************************************)
(* Idle values of the other parts                                          *)
(***************************************************************************)
IdleCompile ==
    /\ clauses = <<>> /\ ret_vars = <<>> /\ clause_idx = 1 /\ ret = Unit
    /\ seen_variables = {} /\ id_serial = 0 /\ result = Running
    /\ previous = NoCall

IdleTarjan ==
    /\ graph = <<>> /\ id = 0 /\ ids = <<>> /\ low = <<>> /\ on_stack = <<>>
    /\ stack = <<>> /\ frames = <<>> /\ run_i = 0 /\ run_pc = "idle"
    /\ poisoned = FALSE /\ tarjan = [kind |-> "Running"]

IdleScc ==
    /\ edges = <<>> /\ nodes = [kind |-> "None"] /\ strong = TRUE
    /\ indices = <<>> /\ inv_indices = <<>> /\ out = {} /\ counter = 0
    /\ node_pos = 1 /\ scc_pc = "idle"

IdleStore ==
    /\ committed = <<>> /\ txs = <<>>

IdleRepl ==
    /\ params = <<>> /\ save_next = [kind |-> "None"] /\ exit = FALSE
    /\ files = {} /\ repl_pc = "idle" /\ trail = <<>>

(***************************************************************************)
(* compile_rule_body: the state machine.  One action per arm of the match  *)
(* on the clause, and one for the projection after the loop.               *)
(***************************************************************************)
CompileInit ==
    /\ clauses \in Bodies
    /\ ret_vars \in RetVarLists
    /\ clause_idx = 1
    /\ ret = Unit
    /\ seen_variables = {}
    /\ id_serial = 0
    /\ result = Running
    /\ previous = NoCall
    /\ IdleTarjan /\ IdleScc /\ IdleStore /\ IdleRepl

AtClause(kind) ==
    /\ result = Running
    /\ clause_idx <= Len(clauses)
    /\ clauses[clause_idx].kind = kind

\* (Term::Const(eid), Term::Var(v_kw)), compile.rs 243-275
CompileTripleConstVar ==
    /\ AtClause("AttrTriple")
    /\ clauses[clause_idx].entity.t = "Const"
    /\ clauses[clause_idx].value.t = "Var"
    /\ LET a == clauses[clause_idx]
           temp_join_key_left == gen_temp_kw(id_serial)
           temp_join_key_right == gen_temp_kw(id_serial + 1)
           const_rel == Singlet(<<temp_join_key_left>>, <<a.entity.k>>)
           ret1 == IF is_unit(ret) THEN const_rel ELSE CartesianJoin(ret, const_rel)
           b == BindOrRename(a.value.k, seen_variables, id_serial + 2)
           right == Triple(a.attr, Vld, temp_join_key_right, b.name)
       IN /\ ret' = Join(ret1, right, <<temp_join_key_left>> \o b.left,
                         <<temp_join_key_right>> \o b.right)
          /\ seen_variables' = b.seen
          /\ id_serial' = b.serial
    /\ clause_idx' = clause_idx + 1
    /\ UNCHANGED <<clauses, ret_vars, previous, result, tarjanVars, sccVars, storeVars, replVars>>

\* (Term::Var(e_kw), Term::Const(val)), compile.rs 276-305
CompileTripleVarConst ==
    /\ AtClause("AttrTriple")
    /\ clauses[clause_idx].entity.t = "Var"
    /\ clauses[clause_idx].value.t = "Const"
    /\ LET a == clauses[clause_idx]
           temp_join_key_left == gen_temp_kw(id_serial)
           temp_join_key_right == gen_temp_kw(id_serial + 1)
           const_rel == Singlet(<<temp_join_key_left>>, <<a.value.k>>)
           ret1 == IF is_unit(ret) THEN const_rel ELSE CartesianJoin(ret, const_rel)
           b == BindOrRename(a.entity.k, seen_variables, id_serial + 2)
           right == Triple(a.attr, Vld, b.name, temp_join_key_right)
       IN /\ ret' = Join(ret1, right, <<temp_join_key_left>> \o b.left,
                         <<temp_join_key_right>> \o b.right)
          /\ seen_variables' = b.seen
          /\ id_serial' = b.serial
    /\ clause_idx' = clause_idx + 1
    /\ UNCHANGED <<clauses, ret_vars, previous, result, tarjanVars, sccVars, storeVars, replVars>>

\* (Term::Var(e_kw), Term::Var(v_kw)), compile.rs 306-341
CompileTripleVarVar ==
    /\ AtClause("AttrTriple")
    /\ clauses[clause_idx].entity.t = "Var"
    /\ clauses[clause_idx].value.t = "Var"
    /\ LET a == clauses[clause_idx]
       IN IF a.entity.k = a.value.k
          THEN \* unimplemented!()
               /\ result' = Panic
               /\ UNCHANGED <<ret, seen_variables, id_serial, clause_idx>>
          ELSE LET be == BindOrRename(a.entity.k, seen_variables, id_serial)
                   bv == BindOrRename(a.value.k, be.seen, be.serial)
                   right == Triple(a.attr, Vld, be.name, bv.name)
               IN /\ ret' = IF is_unit(ret) THEN right
                            ELSE Join(ret, right, be.left \o bv.left,
                                      be.right \o bv.right)
                  /\ seen_variables' = bv.seen
                  /\ id_serial' = bv.serial
                  /\ clause_idx' = clause_idx + 1
                  /\ UNCHANGED result
    /\ UNCHANGED <<clauses, ret_vars, previous, tarjanVars, sccVars, storeVars, replVars>>

\* (Term::Const(eid), Term::Const(val)), compile.rs 342-366
CompileTripleConstConst ==
    /\ AtClause("AttrTriple")
    /\ clauses[clause_idx].entity.t = "Const"
    /\ clauses[clause_idx].value.t = "Const"
    /\ LET a == clauses[clause_idx]
           left_var_1 == gen_temp_kw(id_serial)
           left_var_2 == gen_temp_kw(id_serial + 1)
           const_rel == Singlet(<<left_var_1, left_var_2>>, <<a.entity.k, a.value.k>>)
           ret1 == IF is_unit(ret) THEN const_rel ELSE CartesianJoin(ret, const_rel)
           right_var_1 == gen_temp_kw(id_serial + 2)
           right_var_2 == gen_temp_kw(id_serial + 3)
           right == Triple(a.attr, Vld, right_var_1, right_var_2)
       IN /\ ret' = Join(ret1, right, <<left_var_1, left_var_2>>,
                         <<right_var_1, right_var_2>>)
          /\ id_serial' = id_serial + 4
    /\ clause_idx' = clause_idx + 1
    /\ UNCHANGED <<clauses, ret_vars, previous, seen_variables, result,
                   tarjanVars, sccVars, storeVars, replVars>>

\* Atom::Rule(rule_app), compile.rs 368-419
CompileRule ==
    /\ AtClause("Rule")
    /\ LET rule_app == clauses[clause_idx]
       IN IF rule_app.name \notin DOMAIN Stores
          THEN /\ result' = Err("UndefinedRule", rule_app.name)
               /\ UNCHANGED <<ret, seen_variables, id_serial, clause_idx>>
          ELSE IF ArityDiffers(Stores[rule_app.name].arity, Len(rule_app.args))
          THEN /\ result' = Err("ArityMismatch", rule_app.name)
               /\ UNCHANGED <<ret, seen_variables, id_serial, clause_idx>>
          ELSE LET acc == RuleArgs(rule_app.args,
                              [seen |-> seen_variables, serial |-> id_serial,
                               prev_joiner_vars |-> <<>>, temp_left_bindings |-> <<>>,
                               temp_left_joiner_vals |-> <<>>,
                               right_joiner_vars |-> <<>>, right_vars |-> <<>>])
                   ret1 == IF acc.temp_left_joiner_vals # <<>>
                           THEN CartesianJoin(ret, Singlet(acc.temp_left_bindings,
                                                           acc.temp_left_joiner_vals))
                           ELSE ret
                   right == Derived(acc.right_vars, Stores[rule_app.name].store)
               IN /\ ret' = Join(ret1, right, acc.prev_joiner_vars, acc.right_joiner_vars)
                  /\ seen_variables' = acc.seen
                  /\ id_serial' = acc.serial
                  /\ clause_idx' = clause_idx + 1
                  /\ UNCHANGED result
    /\ UNCHANGED <<clauses, ret_vars, previous, tarjanVars, sccVars, storeVars, replVars>>

\* Atom::Predicate(p), compile.rs 420
CompilePredicate ==
    /\ AtClause("Predicate")
    /\ ret' = Filter(ret, clauses[clause_idx].expr)
    /\ clause_idx' = clause_idx + 1
    /\ UNCHANGED <<clauses, ret_vars, previous, seen_variables, id_serial, result,
                   tarjanVars, sccVars, storeVars, replVars>>

\* Atom::Logical(_) and Atom::BindUnify(_): todo!(), compile.rs 421-426
CompileTodo ==
    /\ result = Running
    /\ clause_idx <= Len(clauses)
    /\ clauses[clause_idx].kind \in {"Logical", "BindUnify"}
    /\ result' = Panic
    /\ UNCHANGED <<clauses, ret_vars, previous, clause_idx, ret, seen_variables, id_serial,
                   tarjanVars, sccVars, storeVars, replVars>>

\* after the loop: elimination, the retry, the safety check, the reorder
\* (compile.rs 430-449)
CompileProject ==
    /\ result = Running
    /\ clause_idx > Len(clauses)
    /\ LET ret_vars_set == Range(ret_vars)
           elim1 == eliminate_temp_vars(ret, ret_vars_set)
           retry == BindingsMismatch(Range(bindings_after_eliminate(ret, elim1)),
                                     ret_vars_set)
           ret2 == IF retry THEN CartesianJoin(ret, Unit) ELSE ret
           elim2 == IF retry THEN eliminate_temp_vars(ret2, ret_vars_set) ELSE elim1
           cur_ret_bindings == bindings_after_eliminate(ret2, elim2)
           cur_ret_set == Range(cur_ret_bindings)
       IN IF BindingsMismatch(cur_ret_set, ret_vars_set)
          THEN /\ result' = Err("UnsafeUnboundVars", UnboundDiff(cur_ret_set, ret_vars_set))
               /\ ret' = ret2
          ELSE LET ret3 == IF ret_vars # cur_ret_bindings
                           THEN Reorder(ret2, ret_vars) ELSE ret2
               IN /\ result' = OkPlan(ret3, elim2)
                  /\ ret' = ret3
    /\ UNCHANGED <<clauses, ret_vars, previous, clause_idx, seen_variables, id_serial,
                   tarjanVars, sccVars, storeVars, replVars>>

\* the caller compiles the same body once more: the locals of the call are
\* set up afresh (compile.rs 231-233), the arguments are the same
CompileAgain ==
    /\ result # Running
    /\ previous = NoCall
    /\ previous' = result
    /\ result' = Running
    /\ clause_idx' = 1
    /\ ret' = Unit
    /\ seen_variables' = {}
    /\ id_serial' = 0
    /\ UNCHANGED <<clauses, ret_vars, tarjanVars, sccVars, storeVars, replVars>>

CompileNext ==
    \/ CompileTripleConstVar
    \/ CompileTripleVarConst
    \/ CompileTripleVarVar
    \/ CompileTripleConstConst
    \/ CompileRule
    \/ CompilePredicate
    \/ CompileTodo
    \/ CompileProject
    \/ CompileAgain

SpecCompile == CompileInit /\ [][CompileNext]_vars

(***************************************************************************)
(* TarjanScc (strongly_connected_components.rs 89-149).  Vectors indexed   *)
(* by node are functions over 0..n-1; stack, frames and adjacency lists    *)
(* are sequences.                                                          *)
(***************************************************************************)
MaxNodes == 3
MaxEdges == 3

\* Option::None in ids: Vec<Option<usize>>
None == -1

Len0(vec) == Cardinality(DOMAIN vec)

\* adjacency lists over nodes 0..n-1 with at most MaxEdges edges in all;
\* order and repetition inside a list are free
RECURSIVE AdjLists(_, _, _)
AdjLists(n, k, budget) ==
    IF k = 0 THEN {<<>>}
    ELSE UNION {
           {<<l>> \o rest : l \in [1..m -> 0..(n - 1)], rest \in AdjLists(n, k - 1, budget - m)}
           : m \in 0..budget}

Graphs ==
    UNION {
      {[i \in 0..(n - 1) |-> ls[i + 1]] : ls \in AdjLists(n, n, MaxEdges)}
      : n \in 1..MaxNodes}

TarjanRunning == [kind |-> "Running"]
TarjanOk(groups) == [kind |-> "Ok", groups |-> groups]
Cancelled == [kind |-> "Cancelled"]

\* the first five statements of dfs(at), lines 125-129, entered by a call
DfsEnter(at) ==
    /\ stack' = Append(stack, at)
    /\ on_stack' = [on_stack EXCEPT ![at] = TRUE]
    /\ id' = id + 1
    /\ ids' = [ids EXCEPT ![at] = id + 1]
    /\ low' = [low EXCEPT ![at] = id + 1]
    /\ frames' = Append(frames, [at |-> at, cursor |-> 1])

\* a variant of LowUpdate that does not look at on_stack
LowUpdateIgnoringStack(low_at, low_to, to_on_stack) == Min(low_at, low_to)

\* line 135-137: the low-link update for an edge at -> to
LowUpdate(low_at, low_to, to_on_stack) ==
    IF to_on_stack THEN Min(low_at, low_to) ELSE low_at

\* line 139: `self.ids[at].unwrap() == self.low[at]`
IsRoot(id_at, low_at) == id_at = low_at

\* lines 140-146: pop down to and including `at`
RECURSIVE PopComponent(_, _, _, _, _)
PopComponent(st, on, lo, at, id_at) ==
    IF st = <<>> THEN [stack |-> st, on_stack |-> on, low |-> lo]
    ELSE LET node == st[Len(st)]
             st1 == SubSeq(st, 1, Len(st) - 1)
             on1 == [on EXCEPT ![node] = FALSE]
             lo1 == [lo EXCEPT ![node] = id_at]
         IN IF node = at THEN [stack |-> st1, on_stack |-> on1, low |-> lo1]
            ELSE PopComponent(st1, on1, lo1, at, id_at)

\* ascending sequence of a finite set of integers (BTreeMap key order)
RECURSIVE SortedSeq(_)
SortedSeq(S) ==
    IF S = {} THEN <<>>
    ELSE LET m == CHOOSE x \in S : \A y \in S : x <= y
         IN <<m>> \o SortedSeq(S \ {m})

\* lines 117-122: group the indices by their low value
LowMapGroups(lo) ==
    LET keys == SortedSeq({lo[i] : i \in DOMAIN lo})
    IN [g \in DOMAIN keys |-> SortedSeq({i \in DOMAIN lo : lo[i] = keys[g]})]

\* Poison::check (runtime/db.rs is not part of the source sample; spec 4.5, 5)
PoisonCheck(flag) == flag

\* TarjanScc::new, lines 99-108
TarjanNew(g) ==
    /\ graph' = g
    /\ id' = 0
    /\ ids' = [i \in DOMAIN g |-> None]
    /\ low' = [i \in DOMAIN g |-> 0]
    /\ on_stack' = [i \in DOMAIN g |-> FALSE]
    /\ stack' = <<>>
    /\ frames' = <<>>
    /\ run_i' = 0
    /\ run_pc' = "loop"
    /\ tarjan' = TarjanRunning

TarjanInit ==
    /\ graph \in Graphs
    /\ id = 0
    /\ ids = [i \in DOMAIN graph |-> None]
    /\ low = [i \in DOMAIN graph |-> 0]
    /\ on_stack = [i \in DOMAIN graph |-> FALSE]
    /\ stack = <<>>
    /\ frames = <<>>
    /\ run_i = 0
    /\ run_pc = "loop"
    /\ poisoned = FALSE
    /\ tarjan = TarjanRunning
    /\ IdleCompile /\ IdleScc /\ IdleStore /\ IdleRepl

\* run, lines 110-112: an unvisited i starts a top-level traversal
RunVisitRoot ==
    /\ run_pc = "loop"
    /\ run_i < Len0(graph)
    /\ ids[run_i] = None
    /\ DfsEnter(run_i)
    /\ run_pc' = "dfs"
    /\ UNCHANGED <<graph, run_i, poisoned, tarjan, compileVars, sccVars, storeVars, replVars>>

\* run, lines 110-111: a visited i is skipped
RunSkip ==
    /\ run_pc = "loop"
    /\ run_i < Len0(graph)
    /\ ids[run_i] # None
    /\ run_i' = run_i + 1
    /\ UNCHANGED <<graph, id, ids, low, on_stack, stack, frames, run_pc, poisoned, tarjan,
                   compileVars, sccVars, storeVars, replVars>>

\* dfs, lines 130-134: the edge leads to an unvisited node, recurse
DfsCall ==
    /\ run_pc = "dfs"
    /\ LET f == frames[Len(frames)]
       IN /\ f.cursor <= Len(graph[f.at])
          /\ ids[graph[f.at][f.cursor]] = None
          /\ DfsEnter(graph[f.at][f.cursor])
    /\ UNCHANGED <<graph, run_i, run_pc, poisoned, tarjan,
                   compileVars, sccVars, storeVars, replVars>>

\* dfs, lines 135-137: the edge's target is visited (before, or by the call
\* that just returned); update low[at] and go to the next edge
DfsLow ==
    /\ run_pc = "dfs"
    /\ LET f == frames[Len(frames)]
           to == graph[f.at][f.cursor]
       IN /\ f.cursor <= Len(graph[f.at])
          /\ ids[to] # None
          /\ low' = [low EXCEPT ![f.at] = LowUpdate(low[f.at], low[to], on_stack[to])]
          /\ frames' = [frames EXCEPT ![Len(frames)].cursor = f.cursor + 1]
    /\ UNCHANGED <<graph, id, ids, on_stack, stack, run_i, run_pc, poisoned, tarjan,
                   compileVars, sccVars, storeVars, replVars>>

\* dfs, lines 139-148: all edges done; pop the component if `at` is its root,
\* then return to the caller (another dfs, or run's `poison.check()?`)
DfsExit ==
    /\ run_pc = "dfs"
    /\ LET f == frames[Len(frames)]
           popped == PopComponent(stack, on_stack, low, f.at, ids[f.at])
       IN /\ f.cursor > Len(graph[f.at])
          /\ IF IsRoot(ids[f.at], low[f.at])
             THEN /\ stack' = popped.stack
                  /\ on_stack' = popped.on_stack
                  /\ low' = popped.low
             ELSE UNCHANGED <<stack, on_stack, low>>
          /\ frames' = SubSeq(frames, 1, Len(frames) - 1)
          /\ run_pc' = IF Len(frames) = 1 THEN "check" ELSE "dfs"
    /\ UNCHANGED <<graph, id, ids, run_i, poisoned, tarjan,
                   compileVars, sccVars, storeVars, replVars>>

\* a variant of RunCheck without the `poison.check()?`
RunCheckSkipped ==
    /\ run_pc = "check"
    /\ run_i' = run_i + 1
    /\ run_pc' = "loop"
    /\ UNCHANGED <<graph, id, ids, low, on_stack, stack, frames, poisoned, tarjan,
                   compileVars, sccVars, storeVars, replVars>>

\* run, line 113: `poison.check()?` after the top-level dfs returned
RunCheck ==
    /\ run_pc = "check"
    /\ IF PoisonCheck(poisoned)
       THEN /\ tarjan' = Cancelled
            /\ run_pc' = "cancelled"
            /\ UNCHANGED run_i
       ELSE /\ run_i' = run_i + 1
            /\ run_pc' = "loop"
            /\ UNCHANGED tarjan
    /\ UNCHANGED <<graph, id, ids, low, on_stack, stack, frames, poisoned,
                   compileVars, sccVars, storeVars, replVars>>

\* run, lines 117-122: the loop is over, collect the groups
RunCollect ==
    /\ run_pc = "loop"
    /\ run_i >= Len0(graph)
    /\ tarjan' = TarjanOk(LowMapGroups(low))
    /\ run_pc' = "done"
    /\ UNCHANGED <<graph, id, ids, low, on_stack, stack, frames, run_i, poisoned,
                   compileVars, sccVars, storeVars, replVars>>

TarjanNext ==
    \/ RunVisitRoot
    \/ RunSkip
    \/ DfsCall
    \/ DfsLow
    \/ DfsExit
    \/ RunCheck
    \/ RunCollect

SpecTarjan == TarjanInit /\ [][TarjanNext]_vars

(***************************************************************************)
(* StronglyConnectedComponent::run (strongly_connected_components.rs       *)
(* 41-77).  Node values are small integers; a row of a relation is a       *)
(* tuple.                                                                  *)
(***************************************************************************)
MaxEdgeRows == 2
MaxNodeRows == 2

NodeVals == {1, 2, 3}

\* usize::MAX, the index stored for a standalone node (line 68)
UsizeMax == 2147483647

\* the edge relation: a set of (source, destination) rows
EdgeRelations == {E \in SUBSET (NodeVals \X NodeVals) : Cardinality(E) <= MaxEdgeRows}

\* rows a nodes relation may hold: one column, and the malformed shapes of no
\* column and of two columns
NodeRows == {<<v>> : v \in NodeVals} \cup {<<>>, <<3, 1>>}

\* the optional nodes relation: absent, or a list of rows
NodeRelations ==
    {[kind |-> "None"]}
    \cup {[kind |-> "Some", rows |-> rs] :
            rs \in UNION {[1..n -> NodeRows] : n \in 0..MaxNodeRows}}

\* rows of a relation are iterated in ascending order
RowLeq(p, q) == p[1] < q[1] \/ (p[1] = q[1] /\ p[2] <= q[2])

RECURSIVE SortedRows(_)
SortedRows(E) ==
    IF E = {} THEN <<>>
    ELSE LET m == CHOOSE p \in E : \A q \in E : RowLeq(p, q)
         IN <<m>> \o SortedRows(E \ {m})

\* push onto a 0-based vector
Push0(vec, x) == [i \in 0..Len0(vec) |-> IF i < Len0(vec) THEN vec[i] ELSE x]

\* the index of value v: looked up, or assigned as the next free index
WithNode(acc, v) ==
    IF v \in DOMAIN acc.inv_indices THEN acc
    ELSE [indices |-> Push0(acc.indices, v),
          inv_indices |-> (v :> Len0(acc.indices)) @@ acc.inv_indices,
          graph |-> Push0(acc.graph, <<>>)]

\* convert_edge_to_graph(undirected): indices by first appearance, one adjacency
\* entry per row, and its mirror image when undirected (the helper is not part of
\* the source sample; spec 4.5, Preprocessing)
RECURSIVE ConvertRows(_, _, _)
ConvertRows(rows, undirected, acc) ==
    IF rows = <<>> THEN acc
    ELSE LET row == Head(rows)
             a1 == WithNode(WithNode(acc, row[1]), row[2])
             from == a1.inv_indices[row[1]]
             to == a1.inv_indices[row[2]]
             g1 == [a1.graph EXCEPT ![from] = Append(@, to)]
             g2 == IF undirected THEN [g1 EXCEPT ![to] = Append(@, from)] ELSE g1
         IN ConvertRows(Tail(rows), undirected, [a1 EXCEPT !.graph = g2])

convert_edge_to_graph(E, undirected) ==
    ConvertRows(SortedRows(E), undirected,
                [indices |-> <<>>, inv_indices |-> <<>>, graph |-> <<>>])

\* lines 53-59: one (node, group id) tuple per member of each group
GroupTuples(groups, idx) ==
    UNION {{<<idx[groups[g][k]], g - 1>> : k \in DOMAIN groups[g]} : g \in DOMAIN groups}

\* a variant of FirstStandaloneId that restarts the numbering
FirstStandaloneIdZero(groups) == 0

\* line 61: `let mut counter = tarjan.len() as i64`
FirstStandaloneId(groups) == Len(groups)

\* line 67: `inv_indices.contains_key(&node)`
ContainsKey(inv, node) == node \in DOMAIN inv

SccInit ==
    /\ edges \in EdgeRelations
    /\ nodes \in NodeRelations
    /\ strong \in BOOLEAN
    /\ indices = <<>> /\ inv_indices = <<>>
    /\ out = {} /\ counter = 0 /\ node_pos = 1
    /\ scc_pc = "start"
    /\ IdleTarjan /\ IdleCompile /\ IdleStore /\ IdleRepl

\* lines 47-52: read the edges, build the graph, construct TarjanScc and call run
SccStart ==
    /\ scc_pc = "start"
    /\ LET conv == convert_edge_to_graph(edges, ~strong)
       IN /\ indices' = conv.indices
          /\ inv_indices' = conv.inv_indices
          /\ TarjanNew(conv.graph)
    /\ scc_pc' = "tarjan"
    /\ UNCHANGED <<edges, nodes, strong, out, counter, node_pos, poisoned,
                   compileVars, storeVars, replVars>>

\* another thread poisons the query while the algorithm runs
Kill ==
    /\ scc_pc \in {"start", "tarjan"}
    /\ ~poisoned
    /\ poisoned' = TRUE
    /\ UNCHANGED <<graph, id, ids, low, on_stack, stack, frames, run_i, run_pc, tarjan,
                   compileVars, sccVars, storeVars, replVars>>

\* a variant of OutAfterCancel that flushes the nodes visited so far with their
\* low-links
OutAfterCancelFlushed(o, idx, visited, lw) ==
    o \cup {<<idx[i], lw[i]>> : i \in {j \in DOMAIN idx : visited[j] # None}}

\* line 52: `?` returns the error before the first out.put of line 57
OutAfterCancel(o, idx, visited, lw) == o

\* line 52: the `?` after TarjanScc::run returned Cancelled
SccCancelled ==
    /\ scc_pc = "tarjan"
    /\ run_pc = "cancelled"
    /\ scc_pc' = "cancelled"
    /\ out' = OutAfterCancel(out, indices, ids, low)
    /\ UNCHANGED <<edges, nodes, strong, indices, inv_indices, counter, node_pos,
                   tarjanVars, compileVars, storeVars, replVars>>

\* lines 53-61: TarjanScc::run returned the groups; emit them, set the counter
SccEmitGroups ==
    /\ scc_pc = "tarjan"
    /\ run_pc = "done"
    /\ out' = out \cup GroupTuples(tarjan.groups, indices)
    /\ counter' = FirstStandaloneId(tarjan.groups)
    /\ scc_pc' = "nodes"
    /\ UNCHANGED <<edges, nodes, strong, indices, inv_indices, node_pos,
                   tarjanVars, compileVars, storeVars, replVars>>

\* lines 64-73: one row of the nodes relation
SccNodeRow ==
    /\ scc_pc = "nodes"
    /\ nodes.kind = "Some"
    /\ node_pos <= Len(nodes.rows)
    /\ LET tuple == nodes.rows[node_pos]
       IN IF tuple = <<>>
          THEN \* `tuple.into_iter().next().unwrap()` on an empty row
               /\ scc_pc' = "panic"
               /\ UNCHANGED <<inv_indices, out, counter, node_pos>>
          ELSE LET node == Head(tuple)
               IN /\ IF ~ContainsKey(inv_indices, node)
                     THEN /\ inv_indices' = (node :> UsizeMax) @@ inv_indices
                          /\ out' = out \cup {<<node, counter>>}
                          /\ counter' = counter + 1
                     ELSE UNCHANGED <<inv_indices, out, counter>>
                  /\ node_pos' = node_pos + 1
                  /\ UNCHANGED scc_pc
    /\ UNCHANGED <<edges, nodes, strong, indices, tarjanVars, compileVars, storeVars, replVars>>

\* lines 63 and 76: no nodes relation, or all of its rows done: Ok(())
SccFinish ==
    /\ scc_pc = "nodes"
    /\ nodes.kind = "Some" => node_pos > Len(nodes.rows)
    /\ scc_pc' = "done"
    /\ UNCHANGED <<edges, nodes, strong, indices, inv_indices, out, counter, node_pos,
                   tarjanVars, compileVars, storeVars, replVars>>

SccNext ==
    \/ SccStart
    \/ Kill
    \/ RunVisitRoot
    \/ RunSkip
    \/ DfsCall
    \/ DfsLow
    \/ DfsExit
    \/ RunCheck
    \/ RunCollect
    \/ SccCancelled
    \/ SccEmitGroups
    \/ SccNodeRow
    \/ SccFinish

SpecScc == SccInit /\ [][SccNext]_vars

(***************************************************************************)
(* Storage and StoreTx (storage/mod.rs 27-111).  The file holds the trait  *)
(* and its contract; the backends are not part of the source sample.  The  *)
(* transaction below is the MVCC transaction of spec 4.3 and 5: reads see  *)
(* the snapshot taken at transact() plus the transaction's own writes;     *)
(* commit() fails when a for_update key or a written key was committed by  *)
(* another transaction after the snapshot.                                 *)
(***************************************************************************)
MaxTxOps == 2

TxIds == {"A", "B", "C"}
Keys == {"k"}

Absent == "Absent"        \* Option::None of get; also a deleted key
NoCommit == -1            \* the transaction has no commit timestamp

NewTx ==
    [status |-> "none", write |-> FALSE, start |-> 0, commit_ts |-> NoCommit,
     for_update |-> {}, writes |-> <<>>, put_keys |-> {}, ops |-> 0,
     got |-> Absent]

\* the value of key as of commit timestamp ts: the last write set up to ts
\* that holds the key
RECURSIVE SnapshotGet(_, _)
SnapshotGet(key, ts) ==
    IF ts = 0 THEN Absent
    ELSE IF key \in DOMAIN committed[ts] THEN committed[ts][key]
         ELSE SnapshotGet(key, ts - 1)

\* a read inside a transaction: own pending write first, then the snapshot
TxRead(tx, key) ==
    IF key \in DOMAIN tx.writes THEN tx.writes[key] ELSE SnapshotGet(key, tx.start)

\* a variant of ModifiedOutside that misses the first commit after the snapshot
ModifiedOutsideOffByOne(tx, key) ==
    \E ts \in (tx.start + 2)..Len(committed) : key \in DOMAIN committed[ts]

\* the key was committed by another transaction after this one's snapshot
ModifiedOutside(tx, key) ==
    \E ts \in (tx.start + 1)..Len(committed) : key \in DOMAIN committed[ts]

\* commit(): "Must return an Err if MVCC consistency cannot be guaranteed"
CommitConflicts(tx) ==
    \E key \in tx.for_update \cup DOMAIN tx.writes : ModifiedOutside(tx, key)

StoreInit ==
    /\ committed = <<>>
    /\ txs = [t \in TxIds |-> NewTx]
    /\ IdleCompile /\ IdleTarjan /\ IdleScc /\ IdleRepl

\* a live transaction that may issue another operation (at most MaxTxOps each)
Active(t) == txs[t].status = "active" /\ txs[t].ops < MaxTxOps

\* Storage::transact(write)
Transact(t, write) ==
    /\ txs[t].status = "none"
    /\ txs' = [txs EXCEPT ![t] = [NewTx EXCEPT !.status = "active", !.write = write,
                                                !.start = Len(committed)]]
    /\ UNCHANGED <<committed, compileVars, tarjanVars, sccVars, replVars>>

\* StoreTx::get(key, for_update); for_update only in a write transaction
Get(t, key, for_update) ==
    /\ Active(t)
    /\ for_update => txs[t].write
    /\ txs' = [txs EXCEPT ![t].got = TxRead(txs[t], key),
                          ![t].for_update = IF for_update THEN @ \cup {key} ELSE @,
                          ![t].ops = @ + 1]
    /\ UNCHANGED <<committed, compileVars, tarjanVars, sccVars, replVars>>

\* StoreTx::put(key, val): the value written names its writer
Put(t, key) ==
    /\ Active(t)
    /\ txs[t].write
    /\ txs' = [txs EXCEPT ![t].writes = (key :> t) @@ @,
                          ![t].put_keys = @ \cup {key},
                          ![t].ops = @ + 1]
    /\ UNCHANGED <<committed, compileVars, tarjanVars, sccVars, replVars>>

\* StoreTx::del(key)
Del(t, key) ==
    /\ Active(t)
    /\ txs[t].write
    /\ txs' = [txs EXCEPT ![t].writes = (key :> Absent) @@ @,
                          ![t].ops = @ + 1]
    /\ UNCHANGED <<committed, compileVars, tarjanVars, sccVars, replVars>>

\* StoreTx::commit(): apply the buffered writes, or fail and discard them
Commit(t) ==
    /\ txs[t].status = "active"
    /\ IF CommitConflicts(txs[t])
       THEN /\ txs' = [txs EXCEPT ![t].status = "aborted", ![t].writes = <<>>]
            /\ UNCHANGED committed
       ELSE IF DOMAIN txs[t].writes = {}
       THEN /\ txs' = [txs EXCEPT ![t].status = "committed"]
            /\ UNCHANGED committed
       ELSE /\ committed' = Append(committed, txs[t].writes)
            /\ txs' = [txs EXCEPT ![t].status = "committed",
                                  ![t].commit_ts = Len(committed) + 1]
    /\ UNCHANGED <<compileVars, tarjanVars, sccVars, replVars>>

StoreNext ==
    \/ \E t \in TxIds, write \in BOOLEAN : Transact(t, write)
    \/ \E t \in TxIds, key \in Keys, for_update \in BOOLEAN : Get(t, key, for_update)
    \/ \E t \in TxIds, key \in Keys : Put(t, key)
    \/ \E t \in TxIds, key \in Keys : Del(t, key)
    \/ \E t \in TxIds : Commit(t)

SpecStore == StoreInit /\ [][StoreNext]_vars

(***************************************************************************)
(* repl_main and process_line (cozo-bin/src/repl.rs 80-301).  A line is a  *)
(* sequence of characters; process_line takes it apart with trim,          *)
(* strip_prefix and split_once as the source does.                         *)
(***************************************************************************)
MaxLines == 3

\* Option<T>
NoneOpt == [kind |-> "None"]
Some(x) == [kind |-> "Some", val |-> x]

\* char::is_whitespace, over the characters of the model
IsWhitespace(c) == c = " "

\* str::trim_start and str::trim
RECURSIVE TrimStart(_)
TrimStart(s) ==
    IF s # <<>> /\ IsWhitespace(Head(s)) THEN TrimStart(Tail(s)) ELSE s

RECURSIVE TrimEnd(_)
TrimEnd(s) ==
    IF s # <<>> /\ IsWhitespace(s[Len(s)]) THEN TrimEnd(SubSeq(s, 1, Len(s) - 1)) ELSE s

Trim(s) == TrimEnd(TrimStart(s))

\* str::strip_prefix(char)
StripPrefix(s, c) == IF s # <<>> /\ Head(s) = c THEN Some(Tail(s)) ELSE NoneOpt

\* str::split_once(|c| c.is_whitespace()): split at the first whitespace
SplitOnce(s) ==
    LET ws == {i \in DOMAIN s : IsWhitespace(s[i])}
    IN IF ws = {} THEN NoneOpt
       ELSE LET i == CHOOSE k \in ws : \A m \in ws : k <= m
            IN Some(<<SubSeq(s, 1, i - 1), SubSeq(s, i + 1, Len(s))>>)

\* the command words of process_line
OpEval == <<"e", "v", "a", "l">>
OpSet == <<"s", "e", "t">>
OpUnset == <<"u", "n", "s", "e", "t">>
OpClear == <<"c", "l", "e", "a", "r">>
OpParams == <<"p", "a", "r", "a", "m", "s">>
OpBackup == <<"b", "a", "c", "k", "u", "p">>
OpRun == <<"r", "u", "n">>
OpRestore == <<"r", "e", "s", "t", "o", "r", "e">>
OpSave == <<"s", "a", "v", "e">>
OpImport == <<"i", "m", "p", "o", "r", "t">>

\* serde_json::from_str over the JSON texts of the model: a one-digit number,
\* with whitespace around it allowed; anything else is a syntax error
JsonDigits == {"1", "2"}

DigitValue(c) == IF c = "1" THEN 1 ELSE 2

ParseJson(v_str) ==
    LET t == Trim(v_str)
    IN IF Len(t) = 1 /\ t[1] \in JsonDigits
       THEN Some([json |-> "Number", n |-> DigitValue(t[1])])
       ELSE NoneOpt

\* DataValue::from(serde_json::Value)
DataValueFrom(val) == [dv |-> "Num", n |-> val.n]

\* BTreeMap::insert: the new value replaces the old one
Insert(m, key, val) == (key :> val) @@ m

\* a variant of Remove that looks the key up and leaves it in the map
RemoveLookupOnly(m, key) == m

\* BTreeMap::remove (the map it leaves)
Remove(m, key) == [k \in DOMAIN m \ {key} |-> m[k]]

\* what process_line leaves behind: the two &mut arguments, the files written,
\* whether it returned Err, and where a query result went
Outcome(p, sn, fs, err, sink) ==
    [params |-> p, save_next |-> sn, files |-> fs, err |-> err, sink |-> sink]

\* the process_out closure (repl.rs 158-207); file_ok says whether File::create
\* and write_all succeed
process_out(p, sn, fs, file_ok) ==
    IF sn.kind = "Some"
    THEN IF file_ok
         THEN Outcome(p, NoneOpt, fs \cup {sn.val}, FALSE, "file")
         ELSE Outcome(p, sn, fs, TRUE, "none")
    ELSE Outcome(p, sn, fs, FALSE, "printed")

\* db.run_script(..)? followed by process_out(out)? (repl.rs 255-256, 292-293,
\* 297-298); env.script_ok says whether the script ran
RunAndOutput(p, sn, fs, env) ==
    IF env.script_ok THEN process_out(p, sn, fs, env.file_ok)
    ELSE Outcome(p, sn, fs, TRUE, "none")

\* the "set" arm (repl.rs 219-227)
ProcessSet(payload, p, sn, fs) ==
    LET kv == SplitOnce(Trim(payload))
    IN IF kv.kind = "None" THEN Outcome(p, sn, fs, TRUE, "none")
       ELSE LET key == kv.val[1]
                val == ParseJson(kv.val[2])
            IN IF val.kind = "None" THEN Outcome(p, sn, fs, TRUE, "none")
               ELSE Outcome(Insert(p, key, DataValueFrom(val.val)), sn, fs, FALSE, "none")

\* the "unset" arm (repl.rs 228-233)
ProcessUnset(payload, p, sn, fs) ==
    LET key == Trim(payload)
    IN IF key \notin DOMAIN p THEN Outcome(p, sn, fs, TRUE, "none")
       ELSE Outcome(Remove(p, key), sn, fs, FALSE, "none")

\* the "save" arm (repl.rs 266-274)
ProcessSave(payload, p, sn, fs) ==
    LET next_path == Trim(payload)
    IN IF next_path = <<>> THEN Outcome(p, sn, fs, FALSE, "none")
       ELSE Outcome(p, Some(next_path), fs, FALSE, "none")

\* the "run" arm (repl.rs 249-257)
ProcessRun(payload, p, sn, fs, env) ==
    IF Trim(payload) = <<>> \/ ~env.read_ok THEN Outcome(p, sn, fs, TRUE, "none")
    ELSE RunAndOutput(p, sn, fs, env)

\* process_line (repl.rs 147-301).  env holds what the world outside the
\* function decides: whether a script or expression runs, whether a file can be
\* read, whether the result file can be written.
ProcessLine(raw, p, sn, fs, env) ==
    LET line == Trim(raw)
        stripped == StripPrefix(line, "%")
    IN IF line = <<>> THEN Outcome(p, sn, fs, FALSE, "none")
       ELSE IF stripped.kind = "None" THEN RunAndOutput(p, sn, fs, env)
       ELSE LET remaining == Trim(stripped.val)
                split == SplitOnce(remaining)
                op == IF split.kind = "Some" THEN split.val[1] ELSE remaining
                payload == IF split.kind = "Some" THEN split.val[2] ELSE <<>>
            IN CASE op = OpSet -> ProcessSet(payload, p, sn, fs)
                 [] op = OpUnset -> ProcessUnset(payload, p, sn, fs)
                 [] op = OpClear -> Outcome(<<>>, sn, fs, FALSE, "none")
                 [] op = OpSave -> ProcessSave(payload, p, sn, fs)
                 [] op = OpRun -> ProcessRun(payload, p, sn, fs, env)
                 [] op = OpParams -> Outcome(p, sn, fs, FALSE, "none")
                 [] op = OpEval -> Outcome(p, sn, fs, ~env.script_ok, "none")
                 [] op \in {OpBackup, OpRestore, OpImport} ->
                        Outcome(p, sn, fs, Trim(payload) = <<>> \/ ~env.read_ok, "none")
                 [] OTHER -> RunAndOutput(p, sn, fs, env)

\* the lines typed at the prompt
KeyWords == {<<"k">>, <<"j">>}
JsonTexts == {<<d>> : d \in JsonDigits}
PathWords == {<<"f">>}

SetLine(K, V) == <<"%">> \o OpSet \o <<" ">> \o K \o <<" ">> \o V
UnsetLine(K) == <<"%">> \o OpUnset \o <<" ">> \o K
SaveLine(P) == <<"%">> \o OpSave \o <<" ">> \o P
SaveOffLine == <<"%">> \o OpSave
QueryLine == <<"?", "q">>

Lines ==
    {SetLine(K, V) : K \in KeyWords, V \in JsonTexts \cup {<<"x">>}}
    \cup {UnsetLine(K) : K \in KeyWords}
    \cup {SaveLine(P) : P \in PathWords}
    \cup {SaveOffLine, SaveOffLine \o <<" ">>, QueryLine, <<>>,
          <<"%">> \o OpSet \o <<" ", "k">>,
          <<"%">> \o OpUnset \o <<" ", " ", "k">>,
          <<"%">> \o OpClear,
          <<"%">> \o OpParams,
          <<"%">> \o OpRun \o <<" ", "f">>,
          <<"%", "z">>}

Envs == [script_ok : BOOLEAN, file_ok : BOOLEAN, read_ok : BOOLEAN]

\* one entry of the trail: what readline returned, and for a line the params
\* before and after it, whether process_line returned Err, where its result went
Entry(event, line, before, after, err, sink) ==
    [event |-> event, line |-> line, before |-> before, after |-> after,
     err |-> err, sink |-> sink]

\* a variant of ExitAfterLine that leaves the flag as it was
ExitAfterLineKept(flag) == flag

\* repl.rs 126: `exit = false` after a line was read
ExitAfterLine(flag) == FALSE

\* repl.rs 105-114: the state before the loop
ReplInit ==
    /\ params = <<>>
    /\ save_next = NoneOpt
    /\ exit = FALSE
    /\ files = {}
    /\ repl_pc = "loop"
    /\ trail = <<>>
    /\ IdleCompile /\ IdleTarjan /\ IdleScc /\ IdleStore

AtPrompt == repl_pc = "loop" /\ Len(trail) < MaxLines

\* readline returned Ok(line), repl.rs 119-127
ReplLine ==
    /\ AtPrompt
    /\ \E raw \in Lines, env \in Envs :
         LET o == ProcessLine(raw, params, save_next, files, env)
         IN /\ params' = o.params
            /\ save_next' = o.save_next
            /\ files' = o.files
            /\ trail' = Append(trail, Entry("Line", raw, params, o.params, o.err, o.sink))
    /\ exit' = ExitAfterLine(exit)
    /\ UNCHANGED <<repl_pc, compileVars, tarjanVars, sccVars, storeVars>>

\* readline returned Err(Interrupted), repl.rs 128-135
ReplInterrupted ==
    /\ AtPrompt
    /\ IF exit THEN repl_pc' = "ended" /\ UNCHANGED exit
       ELSE exit' = TRUE /\ UNCHANGED repl_pc
    /\ trail' = Append(trail, Entry("Interrupted", <<>>, params, params, FALSE, "none"))
    /\ UNCHANGED <<params, save_next, files, compileVars, tarjanVars, sccVars, storeVars>>

\* readline returned Err(Eof), repl.rs 136
ReplEof ==
    /\ AtPrompt
    /\ repl_pc' = "ended"
    /\ trail' = Append(trail, Entry("Eof", <<>>, params, params, FALSE, "none"))
    /\ UNCHANGED <<params, save_next, exit, files,
                   compileVars, tarjanVars, sccVars, storeVars>>

\* readline returned another Err, repl.rs 137
ReplReadError ==
    /\ AtPrompt
    /\ trail' = Append(trail, Entry("Error", <<>>, params, params, FALSE, "none"))
    /\ UNCHANGED <<params, save_next, exit, files, repl_pc,
                   compileVars, tarjanVars, sccVars, storeVars>>

ReplNext ==
    \/ ReplLine
    \/ ReplInterrupted
    \/ ReplEof
    \/ ReplReadError

SpecRepl == ReplInit /\ [][ReplNext]_vars

(***************************************************************************)
(* Properties of compile_rule_body                                         *)
(***************************************************************************)
IsPositive(atom) == atom.kind \in {"AttrTriple", "Rule"}

\* Atom::collect_bindings restricted to one atom (compile.rs 146-167)
AtomBindings(atom) ==
    CASE atom.kind = "AttrTriple" ->
             {t.k : t \in {x \in {atom.entity, atom.value} : x.t = "Var"}}
      [] atom.kind = "Rule" ->
             {atom.args[i].k : i \in {j \in DOMAIN atom.args : atom.args[j].t = "Var"}}
      [] atom.kind = "Predicate" -> atom.expr.bindings
      [] OTHER -> {}

\* the variables produced by the positive atoms among the first n clauses
ProducedBy(n) ==
    UNION {AtomBindings(clauses[i]) : i \in {j \in 1..n : IsPositive(clauses[j])}}

IsSelfTriple(atom) ==
    /\ atom.kind = "AttrTriple"
    /\ atom.entity.t = "Var" /\ atom.value.t = "Var"
    /\ atom.entity.k = atom.value.k

\* a body the compiler is meant to accept: executable atoms only, rules that are
\* planned with the right arity and name each variable once, no self-triple,
\* predicates over bound variables
WellFormedBody ==
    \A i \in DOMAIN clauses :
        LET atom == clauses[i]
        IN /\ atom.kind \in {"AttrTriple", "Rule", "Predicate"}
           /\ ~IsSelfTriple(atom)
           /\ atom.kind = "Rule" =>
                /\ atom.name \in DOMAIN Stores
                /\ Stores[atom.name].arity = Len(atom.args)
                /\ \A m \in DOMAIN atom.args, n \in DOMAIN atom.args :
                      (atom.args[m].t = "Var" /\ atom.args[m] = atom.args[n]) => m = n
           /\ atom.kind = "Predicate" => atom.expr.bindings \subseteq ProducedBy(i - 1)

SafeBody == WellFormedBody /\ Range(ret_vars) \subseteq ProducedBy(Len(clauses))

Returned == result.kind # "Running"

FinalBindings == bindings_after_eliminate(result.plan, result.to_eliminate)

\* C1 (as claimed): every safe body of AttrTriple, RuleApply and Predicate atoms
\* compiles to a plan whose bindings after elimination are exactly ret_vars, in
\* that order, with no `*` temp among them.
C1_SafeBodyCompiles ==
    (Returned /\ SafeBody) =>
        /\ result.kind = "Ok"
        /\ FinalBindings = ret_vars
        /\ \A i \in DOMAIN FinalBindings : ~IsTemp(FinalBindings[i])

\* the walk has passed a Predicate atom that references a variable which no
\* positive atom before it had bound
PassedUnsafePredicate ==
    \E i \in 1..(clause_idx - 1) :
        /\ clauses[i].kind = "Predicate"
        /\ ~(clauses[i].expr.bindings \subseteq ProducedBy(i - 1))

\* C2 (as claimed): a compile whose walk passed a Predicate atom over an unbound
\* variable has failed with UnsafeBindingInPredicate, and every Filter of a
\* returned plan references only variables of its child's bindings.
C2_UnsafePredicateRejected ==
    /\ (Returned /\ PassedUnsafePredicate) => result.kind = "UnsafeBindingInPredicate"
    /\ result.kind = "Ok" =>
         \A f \in SubRelations(result.plan) :
            f.t = "Filter" => f.expr.bindings \subseteq Range(Bindings(f.child))

HasUnboundRetVar == ~(Range(ret_vars) \subseteq ProducedBy(Len(clauses)))

\* the loop over the clauses ran to its end and the projection returned
Projected == Returned /\ clause_idx > Len(clauses)

\* C3: when ret_vars names a variable that no AttrTriple or RuleApply atom
\* produces, no plan is returned, and the projection step returns
\* UnsafeUnboundVars.
C3_UnboundRetVarRejected ==
    HasUnboundRetVar =>
        /\ result.kind # "Ok"
        /\ Projected => result.kind = "UnsafeUnboundVars"

C3_Witness ==
    /\ HasUnboundRetVar
    /\ Projected
    /\ Len(clauses) = MaxBody
    /\ \E i \in DOMAIN clauses : IsPositive(clauses[i])
    /\ result.kind = "UnsafeUnboundVars"

\* C8 (as claimed): in every Join built from AttrTriple and RuleApply atoms each
\* left key is in the bindings of the left child and each right key in the
\* bindings of the right child.
C8_JoinKeysBound ==
    (\A i \in 1..(clause_idx - 1) : IsPositive(clauses[i])) =>
        \A j \in SubRelations(ret) :
            j.t = "Join" =>
                /\ Range(j.left_keys) \subseteq Range(Bindings(j.left))
                /\ Range(j.right_keys) \subseteq Range(Bindings(j.right))

\* C9 (as claimed): during the walk over the atoms Unit is never the left
\* operand of a Join or a CartesianJoin.
C9_UnitNeverJoined ==
    result.kind = "Running" =>
        \A j \in SubRelations(ret) :
            j.t \in {"Join", "CartesianJoin"} => ~is_unit(j.left)

\* C10 (as claimed): a compile that stops at an AttrTriple whose entity and
\* value are the same variable has returned LogicError.
C10_SelfTripleLogicError ==
    (/\ Returned
     /\ clause_idx <= Len(clauses)
     /\ IsSelfTriple(clauses[clause_idx]))
    => result.kind = "LogicError"

\* C13: every Join node built by compile_rule_body carries as many left keys
\* as right keys.
C13_JoinKeysSameLength ==
    \A j \in SubRelations(ret) :
        j.t = "Join" => Len(j.left_keys) = Len(j.right_keys)

\* a rule atom with a constant, then a triple with a constant and a seen
\* variable: a join on one pair below a join on two pairs
C13_Witness ==
    /\ \E j \in SubRelations(ret) :
          j.t = "Join" /\ j.right.t = "Derived" /\ Len(j.left_keys) = 1
    /\ \E j \in SubRelations(ret) :
          /\ j.t = "Join" /\ j.right.t = "Triple" /\ Len(j.left_keys) = 2
          /\ \E i \in DOMAIN j.left_keys : ~IsTemp(j.left_keys[i])

\* the binding set the projection compared with ret_vars_set when it failed:
\* the bindings of the final ret after elimination (compile.rs 438-439)
FailedBindingSet ==
    Range(bindings_after_eliminate(ret, eliminate_temp_vars(ret, Range(ret_vars))))

\* C17 (as claimed): the variables carried by UnsafeUnboundVars are the
\* difference between the binding set after elimination and ret_vars_set.
C17_UnboundVarsAgainstRetVars ==
    result.kind = "UnsafeUnboundVars" =>
        result.payload = FailedBindingSet \ Range(ret_vars)

\* the names the leaves of a plan introduce, in order, with repetitions
RECURSIVE LeafNames(_)
LeafNames(rel) ==
    CASE rel.t \in {"Singlet", "Derived"} -> rel.vars
      [] rel.t = "Triple" -> <<rel.e, rel.v>>
      [] rel.t \in {"Join", "CartesianJoin"} -> LeafNames(rel.left) \o LeafNames(rel.right)
      [] rel.t \in {"Filter", "Reorder"} -> LeafNames(rel.child)
      [] OTHER -> <<>>

\* the temp names gen_temp_kw has issued when the counter stands at serial
Issued(serial) == {TempNames[n] : n \in 1..serial}

\* C18: a second call with the same clauses, validity, stores and ret_vars
\* returns what the first call returned; in each call the counter starts at 0,
\* every temp of the plan was issued below the counter, and no temp is issued
\* to two leaves or twice to one.
C18_Deterministic ==
    /\ (previous # NoCall /\ Returned) => result = previous
    /\ (result = Running /\ clause_idx = 1) => id_serial = 0
    /\ LET names == LeafNames(ret)
       IN /\ \A i \in DOMAIN names : IsTemp(names[i]) => names[i] \in Issued(id_serial)
          /\ \A i \in DOMAIN names, j \in DOMAIN names :
                (IsTemp(names[i]) /\ names[i] = names[j]) => i = j

\* the second call has returned a plan that two atoms with constants built
C18_Witness ==
    /\ previous # NoCall
    /\ result.kind = "Ok"
    /\ Len(clauses) >= 2
    /\ id_serial >= 6

\* the compile returned while standing at a RuleApply atom
StoppedAtRule ==
    /\ Returned
    /\ clause_idx <= Len(clauses)
    /\ clauses[clause_idx].kind = "Rule"

KnownRule(atom) == atom.name \in DOMAIN Stores

RightArity(atom) == Stores[atom.name].arity = Len(atom.args)

\* C11: a compile that stops at a RuleApply atom has failed with UndefinedRule
\* when the name is not in stores and with ArityMismatch when the stored arity
\* differs from the number of arguments; these two errors are returned only
\* there, and every RuleApply atom the walk has passed is a known rule of the
\* right arity that raised neither.
C11_RuleLookupErrors ==
    /\ StoppedAtRule =>
          LET atom == clauses[clause_idx]
          IN IF ~KnownRule(atom) THEN result = Err("UndefinedRule", atom.name)
             ELSE /\ ~RightArity(atom)
                  /\ result = Err("ArityMismatch", atom.name)
    /\ result.kind \in {"UndefinedRule", "ArityMismatch"} => StoppedAtRule
    /\ \A i \in 1..(clause_idx - 1) :
          clauses[i].kind = "Rule" => KnownRule(clauses[i]) /\ RightArity(clauses[i])

\* a rule atom of the right arity was passed, and the next one has too few
\* arguments
C11_Witness ==
    /\ StoppedAtRule
    /\ clause_idx = 2
    /\ clauses[1].kind = "Rule"
    /\ result.kind = "ArityMismatch"
    /\ Len(clauses[2].args) < Stores[clauses[2].name].arity

(***************************************************************************)
(* Properties of TarjanScc and StronglyConnectedComponent::run             *)
(***************************************************************************)
\* the nodes reachable from the set S along the edges of g
RECURSIVE ReachSet(_, _)
ReachSet(g, S) ==
    LET T == S \cup UNION {Range(g[i]) : i \in S}
    IN IF T = S THEN S ELSE ReachSet(g, T)

StronglyConnected(g, a, b) == b \in ReachSet(g, {a}) /\ a \in ReachSet(g, {b})

\* the positions <<group, place>> at which index i occurs in the groups
Occurrences(groups, i) ==
    UNION {{<<g, k>> : k \in {m \in DOMAIN groups[g] : groups[g][m] = i}}
           : g \in DOMAIN groups}

SameGroup(groups, i, j) ==
    \E g \in DOMAIN groups : i \in Range(groups[g]) /\ j \in Range(groups[g])

\* C4: with the token never poisoned, the groups returned by TarjanScc::run are
\* exactly the strongly connected components: every index 0..graph.len()-1 occurs
\* exactly once, and two indices share a group iff each reaches the other.
C4_GroupsAreSccs ==
    tarjan.kind = "Ok" =>
        /\ \A g \in DOMAIN tarjan.groups : Range(tarjan.groups[g]) \subseteq DOMAIN graph
        /\ \A i \in DOMAIN graph : Cardinality(Occurrences(tarjan.groups, i)) = 1
        /\ \A i \in DOMAIN graph, j \in DOMAIN graph :
             SameGroup(tarjan.groups, i, j) <=> StronglyConnected(graph, i, j)

\* a finished run over three nodes: a cycle of two, and an edge between
\* different components
C4_Witness ==
    /\ tarjan.kind = "Ok"
    /\ Len0(graph) = MaxNodes
    /\ Len(tarjan.groups) = 2
    /\ \E i \in DOMAIN graph, j \in DOMAIN graph :
         /\ i < j
         /\ i \in Range(graph[j])
         /\ ~StronglyConnected(graph, i, j)

\* the number of strongly connected components of the edge-induced graph
ComponentCount ==
    Cardinality({{j \in DOMAIN graph : StronglyConnected(graph, i, j)} : i \in DOMAIN graph})

EdgeNodes == {indices[i] : i \in DOMAIN indices}

\* the standalone nodes of the nodes relation, in iteration order, each once
RECURSIVE Standalone(_, _)
Standalone(rows, known) ==
    IF rows = <<>> THEN <<>>
    ELSE IF Head(rows) = <<>> \/ Head(rows)[1] \in known
         THEN Standalone(Tail(rows), known)
         ELSE <<Head(rows)[1]>> \o Standalone(Tail(rows), known \cup {Head(rows)[1]})

StandaloneNodes ==
    IF nodes.kind = "Some" THEN Standalone(nodes.rows, EdgeNodes) ELSE <<>>

\* C5: in the output of a finished run the group ids are one dense numbering:
\* the edge-graph nodes carry exactly the ids 0..K-1, one id per component, and
\* the n-th distinct standalone node of the nodes relation carries K+n-1, once.
C5_DenseGroupIds ==
    scc_pc = "done" =>
        LET K == ComponentCount
            sa == StandaloneNodes
        IN /\ {t[2] : t \in {u \in out : u[1] \in EdgeNodes}} = 0..(K - 1)
           /\ \A i \in DOMAIN graph, j \in DOMAIN graph :
                \A gi \in 0..(K - 1), gj \in 0..(K - 1) :
                    (<<indices[i], gi>> \in out /\ <<indices[j], gj>> \in out)
                    => ((gi = gj) <=> StronglyConnected(graph, i, j))
           /\ \A n \in DOMAIN sa : <<sa[n], K + n - 1>> \in out
           /\ \A v \in EdgeNodes \cup Range(sa) :
                Cardinality({t \in out : t[1] = v}) = 1
           /\ \A t \in out : t[1] \in EdgeNodes \cup Range(sa)

\* a finished run with a component, and a nodes relation that lists the same
\* standalone node twice
C5_Witness ==
    /\ scc_pc = "done"
    /\ ComponentCount >= 1
    /\ nodes.kind = "Some"
    /\ Len(nodes.rows) = 2
    /\ nodes.rows[1] = nodes.rows[2]
    /\ Len(StandaloneNodes) = 1

\* the nodes relation holds a row that is not one column wide
HasMalformedNodeRow ==
    /\ nodes.kind = "Some"
    /\ \E i \in DOMAIN nodes.rows : Len(nodes.rows[i]) # 1

\* C12 (as claimed): a run that was not cancelled and whose nodes relation
\* holds a row of arity other than 1 ends with InvalidPayload, and no output
\* tuple carries the first column of such a row unless a one-column row or an
\* edge names the same node.
C12_MalformedNodeRowRejected ==
    /\ (HasMalformedNodeRow /\ scc_pc \in {"done", "panic"}) => scc_pc = "invalid_payload"
    /\ \A t \in out :
          \/ t[1] \in EdgeNodes
          \/ \E i \in DOMAIN nodes.rows : nodes.rows[i] = <<t[1]>>

\* C19: a run that ends with Cancelled leaves out as it was when run was
\* called (empty): nothing is written before TarjanScc::run has returned its
\* groups.
C19_CancelledLeavesOut ==
    scc_pc \in {"start", "tarjan", "cancelled"} => out = {}

\* a run cancelled after a traversal that visited at least two nodes
C19_Witness ==
    /\ scc_pc = "cancelled"
    /\ tarjan = Cancelled
    /\ Cardinality({i \in DOMAIN ids : ids[i] # None}) >= 2

\* C7: when a top-level traversal returns, run is at `poison.check()?`; from
\* there, with the token poisoned, run can only return Cancelled, and no further
\* node is visited.
C7_PoisonCheckedAfterEachRoot ==
    [][ /\ (run_pc = "dfs" /\ run_pc' # "dfs") => run_pc' = "check"
        /\ (run_pc = "check" /\ poisoned) =>
              /\ run_pc' = "check" \/ (run_pc' = "cancelled" /\ tarjan' = Cancelled)
              /\ ids' = ids ]_vars

\* a run cancelled after a traversal that ended with the token poisoned, with a
\* root left unvisited
C7_Witness ==
    /\ run_pc = "cancelled"
    /\ tarjan = Cancelled
    /\ poisoned
    /\ \E i \in DOMAIN ids : ids[i] = None
    /\ \E i \in DOMAIN ids : ids[i] # None

(***************************************************************************)
(* Properties of the storage transaction                                   *)
(***************************************************************************)
\* both committed, and each began before the other's commit
CommittedConcurrently(t1, t2) ==
    /\ txs[t1].status = "committed" /\ txs[t2].status = "committed"
    /\ txs[t1].commit_ts # NoCommit /\ txs[t2].commit_ts # NoCommit
    /\ txs[t1].start < txs[t2].commit_ts
    /\ txs[t2].start < txs[t1].commit_ts

LockedAndPut(t, key) == key \in txs[t].for_update /\ key \in txs[t].put_keys

\* C6: of two concurrent write transactions that both get(k, for_update) and
\* put(k, _), at most one commits; a failed commit leaves none of its writes in
\* the committed store, and no transaction reads a value whose writer did not
\* commit.
C6_AtMostOneCommit ==
    /\ \A t1 \in TxIds, t2 \in TxIds, key \in Keys :
         (t1 # t2 /\ LockedAndPut(t1, key) /\ LockedAndPut(t2, key))
         => ~CommittedConcurrently(t1, t2)
    /\ \A t \in TxIds :
         txs[t].status = "aborted" =>
            /\ txs[t].writes = <<>>
            /\ \A ts \in DOMAIN committed :
                 \A key \in DOMAIN committed[ts] : committed[ts][key] # t
    /\ \A t \in TxIds :
         (txs[t].got # Absent /\ txs[t].got # t) => txs[txs[t].got].status = "committed"

\* two overlapping transactions locked and wrote k, one committed and one
\* failed, and a later transaction read the committed value
C6_Witness ==
    \E t1 \in TxIds, t2 \in TxIds, t3 \in TxIds, key \in Keys :
        /\ t1 # t2 /\ t3 # t1 /\ t3 # t2
        /\ LockedAndPut(t1, key) /\ LockedAndPut(t2, key)
        /\ txs[t1].status = "committed"
        /\ txs[t2].status = "aborted"
        /\ txs[t2].start < txs[t1].commit_ts
        /\ txs[t1].start < Len(committed)
        /\ txs[t3].start >= txs[t1].commit_ts
        /\ txs[t3].got = t1

(***************************************************************************)
(* Properties of the REPL                                                  *)
(***************************************************************************)
\* entries i and i+1 of the trail are the lines `%set K V` and `%unset K`
SetThenUnset(i, K, V) ==
    /\ trail[i].event = "Line" /\ trail[i].line = SetLine(K, V)
    /\ trail[i + 1].event = "Line" /\ trail[i + 1].line = UnsetLine(K)

\* C14 (as claimed): for every params map, key K and valid JSON value V, the
\* line `%set K V` followed by the line `%unset K` leaves params as it was.
C14_SetUnsetRoundTrip ==
    \A i \in 1..(Len(trail) - 1), K \in KeyWords, V \in JsonTexts :
        SetThenUnset(i, K, V) => trail[i + 1].after = trail[i].before

\* C14 (amended): the same, for every key K that is not in params before the
\* two lines.
C14_SetUnsetRoundTripFreshKey ==
    \A i \in 1..(Len(trail) - 1), K \in KeyWords, V \in JsonTexts :
        (SetThenUnset(i, K, V) /\ K \notin DOMAIN trail[i].before)
        => trail[i + 1].after = trail[i].before

\* another key is set, then K is set and unset
C14_Witness ==
    \E i \in 1..(Len(trail) - 1), K \in KeyWords, V \in JsonTexts :
        /\ SetThenUnset(i, K, V)
        /\ K \notin DOMAIN trail[i].before
        /\ DOMAIN trail[i].before # {}
        /\ K \in DOMAIN trail[i].after
        /\ ~trail[i + 1].err

\* C15 (as claimed): the result of a query that comes right after a `%save`
\* line with no path is not written to a file, and is printed when the line
\* succeeds.
C15_SaveWithoutPathDisables ==
    \A i \in 1..(Len(trail) - 1) :
        (/\ trail[i].event = "Line"
         /\ trail[i].line \in {SaveOffLine, SaveOffLine \o <<" ">>}
         /\ trail[i + 1].event = "Line"
         /\ trail[i + 1].line = QueryLine)
        => /\ trail[i + 1].sink # "file"
           /\ ~trail[i + 1].err => trail[i + 1].sink = "printed"

\* C16: the loop has ended only after readline returned Eof, or returned
\* Interrupted after an earlier Interrupted with no line read in between; it
\* never ends on a line, whether process_line failed on it or not.
C16_LoopEndsOnlyOnEofOrSecondInterrupt ==
    repl_pc = "ended" =>
        LET n == Len(trail)
        IN \/ trail[n].event = "Eof"
           \/ /\ trail[n].event = "Interrupted"
              /\ \E i \in 1..(n - 1) :
                    /\ trail[i].event = "Interrupted"
                    /\ \A j \in (i + 1)..(n - 1) : trail[j].event # "Line"

\* a line on which process_line failed, then Ctrl-C twice
C16_Witness ==
    /\ repl_pc = "ended"
    /\ Len(trail) = 3
    /\ trail[1].event = "Line" /\ trail[1].err
    /\ trail[2].event = "Interrupted"
    /\ trail[3].event = "Interrupted"

====
